---- MODULE Spec2Model ----
(***************************************************************************)
(* Model of the Bio Gaz landing page (src/page.tsx): the demo calculator   *)
(* `estimate`, its helper `round`, the 12-month cashflow `chartData`, and  *)
(* the page state the handlers change (calc, the memoised result, the FAQ  *)
(* accordion, the toast and its hide-timers).                              *)
(*                                                                         *)
(* JavaScript values are records [k, n, d, s]:                             *)
(*   k = "num"    a finite Number, the exact rational n/d in lowest terms  *)
(*   k = "nan" / "inf" / "ninf"   the Numbers NaN, +Infinity, -Infinity    *)
(*   k = "undef" / "null"         undefined, null                          *)
(*   k = "str"    a String, s its characters                               *)
(*   k = "bigint" / "symbol"      values ToNumber refuses with a TypeError *)
(* Finite Numbers are exact rationals: binary64 rounding noise and the     *)
(* sign of zero are not modelled.                                          *)
(***************************************************************************)
EXTENDS Integers, Sequences, FiniteSets, TLC

\* ------------------------------------------------------------------
\* JavaScript values
\* ------------------------------------------------------------------
RECURSIVE Gcd(_, _)
Gcd(a, b) == IF b = 0 THEN a ELSE Gcd(b, a % b)

Abs(x) == IF x < 0 THEN -x ELSE x

Val(kind, n, d, s) == [k |-> kind, n |-> n, d |-> d, s |-> s]

\* the finite Number n/d (d > 0), in lowest terms
Num(n, d) ==
  LET g == Gcd(Abs(n), d)
  IN  Val("num", n \div g, d \div g, <<>>)

IntNum(n) == Num(n, 1)
NaN == Val("nan", 0, 1, <<>>)
PosInf == Val("inf", 0, 1, <<>>)
NegInf == Val("ninf", 0, 1, <<>>)
Undefined == Val("undef", 0, 1, <<>>)
Null == Val("null", 0, 1, <<>>)
Str(s) == Val("str", 0, 1, s)
BigIntVal(n) == Val("bigint", n, 1, <<>>)
SymbolVal == Val("symbol", 0, 1, <<>>)

IsFinite(v) == v.k = "num"
IsNumber(v) == v.k \in {"num", "nan", "inf", "ninf"}

\* sign of a non-NaN Number: -1, 0 or 1
Sign(v) ==
  CASE v.k = "inf" -> 1
    [] v.k = "ninf" -> -1
    [] OTHER -> IF v.n > 0 THEN 1 ELSE IF v.n < 0 THEN -1 ELSE 0

Signed(sgn) == IF sgn > 0 THEN PosInf ELSE NegInf

\* ------------------------------------------------------------------
\* String -> Number (the StringToNumber grammar, decimal literals)
\* ------------------------------------------------------------------
Digits == <<"0", "1", "2", "3", "4", "5", "6", "7", "8", "9">>

IsDigit(c) == \E i \in 1..Len(Digits) : Digits[i] = c

DigitValue(c) == (CHOOSE i \in 1..Len(Digits) : Digits[i] = c) - 1

AllDigits(s) == \A i \in 1..Len(s) : IsDigit(s[i])

\* value of a run of digits read as a decimal integer
RECURSIVE DigitsValue(_)
DigitsValue(s) ==
  IF s = <<>> THEN 0
  ELSE 10 * DigitsValue(SubSeq(s, 1, Len(s) - 1)) + DigitValue(s[Len(s)])

RECURSIVE Pow10(_)
Pow10(e) == IF e = 0 THEN 1 ELSE 10 * Pow10(e - 1)

\* position of the first ".", or 0
DotAt(s) ==
  IF \E i \in 1..Len(s) : s[i] = "."
  THEN CHOOSE i \in 1..Len(s) : s[i] = "." /\ \A j \in 1..(i - 1) : s[j] # "."
  ELSE 0

\* an unsigned decimal literal: digits, digits "." digits*, "." digits
IsUnsignedDecimal(s) ==
  LET dot == DotAt(s)
      ip == IF dot = 0 THEN s ELSE SubSeq(s, 1, dot - 1)
      fp == IF dot = 0 THEN <<>> ELSE SubSeq(s, dot + 1, Len(s))
  IN  /\ AllDigits(ip)
      /\ AllDigits(fp)
      /\ Len(ip) + Len(fp) > 0

UnsignedDecimalValue(s) ==
  LET dot == DotAt(s)
      ip == IF dot = 0 THEN s ELSE SubSeq(s, 1, dot - 1)
      fp == IF dot = 0 THEN <<>> ELSE SubSeq(s, dot + 1, Len(s))
  IN  Num(DigitsValue(ip) * Pow10(Len(fp)) + DigitsValue(fp), Pow10(Len(fp)))

\* Number(text): "" is 0, a signed decimal literal is its value, anything
\* else is NaN
StringToNumber(s) ==
  IF s = <<>> THEN IntNum(0)
  ELSE LET signed == s[1] \in {"-", "+"}
           body == IF signed THEN Tail(s) ELSE s
       IN  IF ~IsUnsignedDecimal(body) THEN NaN
           ELSE LET u == UnsignedDecimalValue(body)
                IN  IF s[1] = "-" THEN Num(-u.n, u.d) ELSE u

\* ToNumber raises a TypeError for BigInt and Symbol operands
Throws(v) == v.k \in {"bigint", "symbol"}

ToNumber(v) ==
  CASE IsNumber(v) -> v
    [] v.k = "undef" -> NaN
    [] v.k = "null" -> IntNum(0)
    [] v.k = "str" -> StringToNumber(v.s)
    [] OTHER -> NaN

\* ------------------------------------------------------------------
\* Number arithmetic (operands already Numbers)
\* ------------------------------------------------------------------
\* a * b
Mul(a, b) ==
  IF a.k = "nan" \/ b.k = "nan" THEN NaN
  ELSE IF IsFinite(a) /\ IsFinite(b)
       THEN LET g1 == Gcd(Abs(a.n), b.d)
                g2 == Gcd(Abs(b.n), a.d)
            IN  Num((a.n \div g1) * (b.n \div g2), (a.d \div g2) * (b.d \div g1))
       ELSE IF Sign(a) * Sign(b) = 0 THEN NaN ELSE Signed(Sign(a) * Sign(b))

\* a + b
Add(a, b) ==
  IF a.k = "nan" \/ b.k = "nan" THEN NaN
  ELSE IF IsFinite(a) /\ IsFinite(b)
       THEN LET g == Gcd(a.d, b.d)
            IN  Num(a.n * (b.d \div g) + b.n * (a.d \div g), (a.d \div g) * b.d)
       ELSE IF IsFinite(a) THEN b
       ELSE IF IsFinite(b) THEN a
       ELSE IF a.k = b.k THEN a ELSE NaN

\* -a
Neg(a) ==
  CASE a.k = "nan" -> NaN
    [] a.k = "inf" -> NegInf
    [] a.k = "ninf" -> PosInf
    [] OTHER -> Num(-a.n, a.d)

\* a / b
Div(a, b) ==
  IF a.k = "nan" \/ b.k = "nan" THEN NaN
  ELSE IF IsFinite(a) /\ IsFinite(b)
       THEN IF b.n = 0
            THEN (IF a.n = 0 THEN NaN ELSE Signed(Sign(a)))
            ELSE Mul(a, Num(Sign(b) * b.d, Abs(b.n)))
       ELSE IF IsFinite(b) THEN Signed(Sign(a) * (IF Sign(b) < 0 THEN -1 ELSE 1))
       ELSE IF IsFinite(a) THEN IntNum(0)
       ELSE NaN

\* a < b, a > b, a <= b (false when either is NaN)
Lt(a, b) ==
  /\ a.k # "nan"
  /\ b.k # "nan"
  /\ IF IsFinite(a) /\ IsFinite(b) THEN a.n * b.d < b.n * a.d
     ELSE IF IsFinite(a) THEN b.k = "inf"
     ELSE IF IsFinite(b) THEN a.k = "ninf"
     ELSE a.k = "ninf" /\ b.k = "inf"

Gt(a, b) == Lt(b, a)

Le(a, b) == a.k # "nan" /\ b.k # "nan" /\ ~Lt(b, a)

\* variant of MathMax without the clamp: the second operand as is
MathMaxNoClamp(a, b) == b

\* variant of MathMax that takes the smaller operand
MathMin(a, b) ==
  IF a.k = "nan" \/ b.k = "nan" THEN NaN
  ELSE IF Lt(a, b) THEN a ELSE b

\* Math.max(a, b): NaN when either operand is NaN
MathMax(a, b) ==
  IF a.k = "nan" \/ b.k = "nan" THEN NaN
  ELSE IF Lt(a, b) THEN b ELSE a

\* variant of MathRound that truncates toward -infinity
MathFloor(x) ==
  IF ~IsFinite(x) THEN x
  ELSE IntNum(x.n \div x.d)

\* variant of MathRound that rounds up (Math.ceil)
MathCeil(x) ==
  IF ~IsFinite(x) THEN x
  ELSE IntNum(IF x.n % x.d = 0 THEN x.n \div x.d ELSE (x.n \div x.d) + 1)

\* Math.round(x): floor(x + 0.5); NaN and the infinities are returned as is
MathRound(x) ==
  IF ~IsFinite(x) THEN x
  ELSE LET q == x.n \div x.d
           r == x.n % x.d
       IN  IntNum(IF 2 * r >= x.d THEN q + 1 ELSE q)

\* variant of StrictEq that never recognises the operands as equal
StrictEqNever(a, b) == FALSE

\* x === y on Numbers: NaN equals nothing
StrictEq(a, b) == a.k # "nan" /\ b.k # "nan" /\ a = b

\* JavaScript truthiness of a Number or null
Truthy(v) ==
  CASE v.k \in {"nan", "null", "undef"} -> FALSE
    [] v.k = "num" -> v.n # 0
    [] v.k = "str" -> v.s # <<>>
    [] OTHER -> TRUE

\* a || b: a when a is truthy, else b
OrElse(a, b) == IF Truthy(a) THEN a ELSE b

\* ------------------------------------------------------------------
\* Calculator (demo model)
\* ------------------------------------------------------------------
cattle == <<"c", "a", "t", "t", "l", "e">>
poultry == <<"p", "o", "u", "l", "t", "r", "y">>
food == <<"f", "o", "o", "d">>
mixed == <<"m", "i", "x", "e", "d">>

FEEDSTOCK ==
  << [key |-> cattle, label |-> "Qoramol go'ngi", factor_m3_per_kg |-> Num(3, 100)],
     [key |-> poultry, label |-> "Parranda go'ngi", factor_m3_per_kg |-> Num(6, 100)],
     [key |-> food, label |-> "Oziq-ovqat chiqindisi", factor_m3_per_kg |-> Num(9, 100)],
     [key |-> mixed, label |-> "Aralash organik", factor_m3_per_kg |-> Num(5, 100)] >>

DefaultGasPriceUZS == 1800
DefaultElectricityPriceUZS == 450
ThermalKwhPerM3 == 6
ElectricKwhPerM3 == 2
DaysPerMonth == 30
CapexFloor == 12000000
CapexPerM3 == 1200000
Co2KgPerM3 == Num(19, 10)

\* variant of round that ignores the number of decimals
roundWhole(x, d) == MathRound(x)

\* round(x, d): Math.round(x * 10 ** d) / 10 ** d
round(x, d) ==
  LET p == IntNum(Pow10(d))
  IN  Div(MathRound(Mul(x, p)), p)

\* variant of FindFeedstock that falls back to the last entry
FindFeedstockLast(feedstockKey) ==
  LET hits == {i \in 1..Len(FEEDSTOCK) :
                 feedstockKey.k = "str" /\ FEEDSTOCK[i].key = feedstockKey.s}
  IN  IF hits = {} THEN FEEDSTOCK[Len(FEEDSTOCK)]
      ELSE FEEDSTOCK[CHOOSE i \in hits : \A j \in hits : i <= j]

\* FEEDSTOCK.find((x) => x.key === feedstockKey) ?? FEEDSTOCK[0]
FindFeedstock(feedstockKey) ==
  LET hits == {i \in 1..Len(FEEDSTOCK) :
                 feedstockKey.k = "str" /\ FEEDSTOCK[i].key = feedstockKey.s}
  IN  IF hits = {} THEN FEEDSTOCK[1]
      ELSE FEEDSTOCK[CHOOSE i \in hits : \A j \in hits : i <= j]

\* variant of WithDefault that replaces every falsy value (price || default)
WithDefaultFalsy(v, dflt) == IF ~Truthy(v) THEN IntNum(dflt) ELSE v

\* a parameter default applies when the property is undefined
WithDefault(v, dflt) == IF v.k = "undef" THEN IntNum(dflt) ELSE v

\* what a caller sees when estimate raises a TypeError
Thrown ==
  [thrown |-> TRUE, feedstock |-> "", biogas_m3 |-> Undefined,
   thermal_kwh |-> Undefined, electric_kwh |-> Undefined,
   monthly_saving |-> Undefined, capex |-> Undefined,
   payback_months |-> Undefined, co2_kg_per_day |-> Undefined]

\* variant of EstimateFields that rounds the volume to 2 decimals before
\* deriving the other fields from it
EstimateFieldsRoundedVolume(feedstockKey, kgPerDay, gasPriceUZS, electricityPriceUZS) ==
  LET fs == FindFeedstock(feedstockKey)
      biogas_m3 ==
        round(Mul(MathMax(IntNum(0), ToNumber(kgPerDay)), fs.factor_m3_per_kg), 2)
      thermal_kwh == Mul(biogas_m3, IntNum(ThermalKwhPerM3))
      electric_kwh == Mul(biogas_m3, IntNum(ElectricKwhPerM3))
      monthly_saving ==
        Mul(Add(Mul(biogas_m3, ToNumber(gasPriceUZS)),
                Mul(electric_kwh, ToNumber(electricityPriceUZS))),
            IntNum(DaysPerMonth))
      capex == MathMax(IntNum(CapexFloor), Mul(biogas_m3, IntNum(CapexPerM3)))
      payback_months ==
        IF Gt(monthly_saving, IntNum(0)) THEN Div(capex, monthly_saving) ELSE PosInf
      co2_kg_per_day == Mul(biogas_m3, Co2KgPerM3)
  IN  [thrown |-> FALSE,
       feedstock |-> fs.label,
       biogas_m3 |-> biogas_m3,
       thermal_kwh |-> round(thermal_kwh, 1),
       electric_kwh |-> round(electric_kwh, 1),
       monthly_saving |-> MathRound(monthly_saving),
       capex |-> MathRound(capex),
       payback_months |->
         IF StrictEq(payback_months, PosInf) THEN Null ELSE round(payback_months, 1),
       co2_kg_per_day |-> round(co2_kg_per_day, 1)]

\* the object estimate returns for the properties of its argument
EstimateFields(feedstockKey, kgPerDay, gasPriceUZS, electricityPriceUZS) ==
  LET fs == FindFeedstock(feedstockKey)
      biogas_m3 == Mul(MathMax(IntNum(0), ToNumber(kgPerDay)), fs.factor_m3_per_kg)
      thermal_kwh == Mul(biogas_m3, IntNum(ThermalKwhPerM3))
      electric_kwh == Mul(biogas_m3, IntNum(ElectricKwhPerM3))
      monthly_saving ==
        Mul(Add(Mul(biogas_m3, ToNumber(gasPriceUZS)),
                Mul(electric_kwh, ToNumber(electricityPriceUZS))),
            IntNum(DaysPerMonth))
      capex == MathMax(IntNum(CapexFloor), Mul(biogas_m3, IntNum(CapexPerM3)))
      payback_months ==
        IF Gt(monthly_saving, IntNum(0)) THEN Div(capex, monthly_saving) ELSE PosInf
      co2_kg_per_day == Mul(biogas_m3, Co2KgPerM3)
  IN  [thrown |-> FALSE,
       feedstock |-> fs.label,
       biogas_m3 |-> round(biogas_m3, 2),
       thermal_kwh |-> round(thermal_kwh, 1),
       electric_kwh |-> round(electric_kwh, 1),
       monthly_saving |-> MathRound(monthly_saving),
       capex |-> MathRound(capex),
       payback_months |->
         IF StrictEq(payback_months, PosInf) THEN Null ELSE round(payback_months, 1),
       co2_kg_per_day |-> round(co2_kg_per_day, 1)]

\* estimate(input): input.kind is "object", or "undefined" / "null" when the
\* argument itself is missing; destructuring those raises, and so does
\* arithmetic on a BigInt or Symbol property
estimate(input) ==
  IF input.kind # "object" THEN Thrown
  ELSE LET gasPriceUZS == WithDefault(input.gasPriceUZS, DefaultGasPriceUZS)
           electricityPriceUZS ==
             WithDefault(input.electricityPriceUZS, DefaultElectricityPriceUZS)
       IN  IF Throws(input.kgPerDay) \/ Throws(gasPriceUZS) \/ Throws(electricityPriceUZS)
           THEN Thrown
           ELSE EstimateFields(input.feedstockKey, input.kgPerDay,
                               gasPriceUZS, electricityPriceUZS)

Obj(feedstockKey, kgPerDay, gasPriceUZS, electricityPriceUZS) ==
  [kind |-> "object", feedstockKey |-> feedstockKey, kgPerDay |-> kgPerDay,
   gasPriceUZS |-> gasPriceUZS, electricityPriceUZS |-> electricityPriceUZS]

\* ------------------------------------------------------------------
\* 12-month cashflow (chartData)
\* ------------------------------------------------------------------
CashflowMonths == 12

\* variant of ChartFrom that emits the running total before adding m
RECURSIVE ChartFromLate(_, _, _)
ChartFromLate(cum, m, i) ==
  IF i >= 12 THEN <<>>
  ELSE <<[month |-> i + 1, cum |-> MathRound(cum)]>> \o ChartFromLate(Add(cum, m), m, i + 1)

\* the callback of Array.from for index i and the ones after it:
\* cum += m; return { month: i + 1, cum: Math.round(cum) }
RECURSIVE ChartFrom(_, _, _)
ChartFrom(cum, m, i) ==
  IF i >= CashflowMonths THEN <<>>
  ELSE LET next == Add(cum, m)
       IN  <<[month |-> i + 1, cum |-> MathRound(next)]>> \o ChartFrom(next, m, i + 1)

\* variant of ChartData whose running total starts at 0
ChartDataNoOutlay(res) ==
  LET m == OrElse(res.monthly_saving, IntNum(0))
  IN  ChartFrom(IntNum(0), m, 0)

\* variant of ChartData whose running total starts at +capex
ChartDataPositiveCapex(res) ==
  LET capex == OrElse(res.capex, IntNum(0))
      m == OrElse(res.monthly_saving, IntNum(0))
  IN  ChartFrom(capex, m, 0)

ChartData(res) ==
  LET capex == OrElse(res.capex, IntNum(0))
      m == OrElse(res.monthly_saving, IntNum(0))
  IN  ChartFrom(Neg(capex), m, 0)

\* ------------------------------------------------------------------
\* Payback text (result tile and copied summary)
\* ------------------------------------------------------------------
\* Number -> String for a natural number
RECURSIVE ToDigits(_)
ToDigits(n) ==
  IF n < 10 THEN <<Digits[n + 1]>>
  ELSE Append(ToDigits(n \div 10), Digits[(n % 10) + 1])

\* decimals a finite Number with at most 3 of them is written with
DecimalsOf(v) == CHOOSE k \in 0..3 : Pow10(k) % v.d = 0 /\ \A j \in 0..(k - 1) : Pow10(j) % v.d # 0

\* the last k digits of n, zero-padded
RECURSIVE FractionDigits(_, _)
FractionDigits(n, k) ==
  IF k = 0 THEN <<>>
  ELSE Append(FractionDigits(n \div 10, k - 1), Digits[(n % 10) + 1])

\* Number -> String (template literal, string concatenation) for NaN,
\* the infinities and decimal fractions below 1e21
NumberToString(v) ==
  CASE v.k = "nan" -> <<"N", "a", "N">>
    [] v.k = "inf" -> <<"I", "n", "f", "i", "n", "i", "t", "y">>
    [] v.k = "ninf" -> <<"-", "I", "n", "f", "i", "n", "i", "t", "y">>
    [] OTHER ->
         LET k == DecimalsOf(v)
             scaled == Abs(v.n) * (Pow10(k) \div v.d)
             whole == ToDigits(scaled \div Pow10(k))
             text == IF k = 0 THEN whole
                     ELSE whole \o <<".">> \o FractionDigits(scaled % Pow10(k), k)
         IN  IF v.n < 0 THEN <<"-">> \o text ELSE text

\* the character U+2014 (em dash), written as one token
Placeholder == <<"emdash">>

\* result.payback_months ? `${result.payback_months} oy` : "\u2014"
PaybackText(payback_months) ==
  IF Truthy(payback_months)
  THEN NumberToString(payback_months) \o <<" ", "o", "y">>
  ELSE Placeholder

\* ------------------------------------------------------------------
\* Bounds and input sets
\* ------------------------------------------------------------------
MaxKgSteps == 3
MaxGasSteps == 2
MaxElecSteps == 1
MaxTimers == 2
HighGasPrice == 1000000

\* texts the kg/day field can hold: empty (read as 0), whole amounts, a
\* negative amount
KgTexts ==
  {<<>>, <<"-", "2", "0", "0">>}
    \cup {ToDigits(200 * i) : i \in 1..MaxKgSteps}

GasTexts ==
  {<<>>, <<"-", "9", "0", "0">>, <<"7", "9", "9", "0">>}
    \cup {ToDigits(900 * i) : i \in 1..MaxGasSteps}

ElecTexts == {<<>>} \cup {ToDigits(450 * i) : i \in 1..MaxElecSteps}

\* the <option> values of the feedstock <select>
OptionKeys == {FEEDSTOCK[i].key : i \in 1..Len(FEEDSTOCK)}

Messages == {"Natijalar yangilandi", "Natija clipboard'ga nusxalandi"}

FaqItems == 4
NoToast == "null"
ToastDelayMs == 2200

\* arguments of a direct call of estimate
KgArgs ==
  {ToNumber(Str(s)) : s \in KgTexts}
    \cup {Num(-(200 * i) - 1, 2) : i \in 0..MaxKgSteps}
    \cup {Num(1, 2), NaN, PosInf, NegInf, Undefined, Null,
          Str(<<"a", "b", "c">>), Str(<<"6", "0", "0">>), BigIntVal(600), SymbolVal}

KeyArgs ==
  {Str(k) : k \in OptionKeys}
    \cup {Str(<<"s", "t", "r", "a", "w">>), Str(<<>>), Undefined, Null}

GasArgs ==
  {ToNumber(Str(s)) : s \in GasTexts}
    \cup {IntNum(-(900 * i)) : i \in 1..MaxGasSteps}
    \cup {IntNum(1), Undefined, Null, NaN, BigIntVal(1800)}

ElecArgs == {ToNumber(Str(s)) : s \in ElecTexts} \cup {Undefined, NaN}

Args ==
  {Obj(f, kg, g, e) : f \in KeyArgs, kg \in KgArgs, g \in GasArgs, e \in ElecArgs}
    \cup {Obj(Str(cattle), IntNum(600), IntNum(HighGasPrice), IntNum(450))}
    \cup {[Obj(Undefined, Undefined, Undefined, Undefined) EXCEPT !.kind = kd] :
            kd \in {"undefined", "null"}}

\* every value the calc state can take through the four fields
PageCalcs ==
  {Obj(Str(f), ToNumber(Str(kg)), ToNumber(Str(g)), ToNumber(Str(e))) :
     f \in OptionKeys, kg \in KgTexts, g \in GasTexts, e \in ElecTexts}

\* useMemo(() => estimate(calc), [calc]): the value the memo holds for
\* calc (tabulated once: @@ makes the table explicit)
MemoResult == [c \in PageCalcs |-> estimate(c)] @@ <<>>

\* every value the result memo can hold
PageResults == {estimate(c) : c \in PageCalcs}

\* useMemo(() => ..., [result.capex, result.monthly_saving]): the value
\* the memo holds for result
MemoChartData == [r \in PageResults |-> ChartData(r)] @@ <<>>

\* ------------------------------------------------------------------
\* State
\* ------------------------------------------------------------------
VARIABLES
  calc,       \* useState: the four calculator fields
  result,     \* useMemo(() => estimate(calc), [calc])
  chartData,  \* useMemo over result.capex, result.monthly_saving
  faqOpen,    \* useState(0): index of the open FAQ item, -1 for none
  toast,      \* useState(null): the message shown
  timers,     \* pending window.setTimeout ids, oldest first
  notifyT,    \* notify._t of the notify function of the current render, 0 when unset
  nextTimer,  \* ids handed out by window.setTimeout so far
  arg,        \* argument of a direct call of estimate
  ret,        \* what that call returned
  called,     \* whether the direct call has been made
  shown       \* the Payback text rendered for ret, NotShown before that

calcVars == <<calc, result, chartData>>
toastVars == <<toast, timers, notifyT, nextTimer>>
callVars == <<arg, ret, called, shown>>
vars == <<calc, result, chartData, faqOpen, toast, timers, notifyT, nextTimer,
          arg, ret, called, shown>>

NotShown == <<>>

InitialCalc == Obj(Str(cattle), IntNum(600), IntNum(1800), IntNum(450))

PageInit ==
  /\ calc = InitialCalc
  /\ result = MemoResult[InitialCalc]
  /\ chartData = MemoChartData[MemoResult[InitialCalc]]
  /\ faqOpen = 0
  /\ toast = NoToast
  /\ timers = <<>>
  /\ notifyT = 0
  /\ nextTimer = 0

Init ==
  /\ PageInit
  /\ arg = InitialCalc
  /\ ret = Thrown
  /\ called = FALSE
  /\ shown = NotShown

\* ------------------------------------------------------------------
\* Page operations
\* ------------------------------------------------------------------
\* variant of Recalc whose chartData memo lists result.capex alone as its
\* dependency
RecalcCapexOnly(next) ==
  /\ calc' = next
  /\ result' = MemoResult[next]
  /\ chartData' =
       IF result'.capex = result.capex THEN chartData ELSE MemoChartData[result']
  /\ notifyT' = 0

\* a render after setCalc(next): both memos re-evaluate, chartData only
\* when one of its two dependencies changed; the render makes a new notify
Recalc(next) ==
  /\ calc' = next
  /\ result' = MemoResult[next]
  /\ chartData' =
       IF result'.capex = result.capex /\ result'.monthly_saving = result.monthly_saving
       THEN chartData
       ELSE MemoChartData[result']
  /\ notifyT' = 0

\* variant of SetFeedstock that also puts the daily mass back to 600
SetFeedstockResetMass(key) ==
  /\ Recalc([calc EXCEPT !.feedstockKey = Str(key), !.kgPerDay = IntNum(600)])
  /\ UNCHANGED <<faqOpen, toast, timers, nextTimer, callVars>>

SetFeedstock(key) ==
  /\ Recalc([calc EXCEPT !.feedstockKey = Str(key)])
  /\ UNCHANGED <<faqOpen, toast, timers, nextTimer, callVars>>

SetKgPerDay(text) ==
  /\ Recalc([calc EXCEPT !.kgPerDay = ToNumber(Str(text))])
  /\ UNCHANGED <<faqOpen, toast, timers, nextTimer, callVars>>

SetGasPrice(text) ==
  /\ Recalc([calc EXCEPT !.gasPriceUZS = ToNumber(Str(text))])
  /\ UNCHANGED <<faqOpen, toast, timers, nextTimer, callVars>>

SetElectricityPrice(text) ==
  /\ Recalc([calc EXCEPT !.electricityPriceUZS = ToNumber(Str(text))])
  /\ UNCHANGED <<faqOpen, toast, timers, nextTimer, callVars>>

\* the FAQ items rendered open: const open = i === faqOpen
OpenItems(f) == {i \in 0..(FaqItems - 1) : i = f}

\* variant of ToggleFaq that closes to the first item: setFaqOpen(open ? 0 : i)
ToggleFaqCloseToFirst(i) ==
  /\ faqOpen' = IF i = faqOpen THEN 0 ELSE i
  /\ notifyT' = IF faqOpen' # faqOpen THEN 0 ELSE notifyT
  /\ UNCHANGED <<calcVars, toast, timers, nextTimer, callVars>>

\* onClick of FAQ item i: setFaqOpen(open ? -1 : i)
ToggleFaq(i) ==
  /\ faqOpen' = IF i = faqOpen THEN -1 ELSE i
  /\ notifyT' = IF faqOpen' # faqOpen THEN 0 ELSE notifyT
  /\ UNCHANGED <<calcVars, toast, timers, nextTimer, callVars>>

\* variant of Notify that clears the old timer and starts no new one
NotifyNoTimer(msg) ==
  /\ nextTimer < MaxTimers
  /\ toast' = msg
  /\ nextTimer' = nextTimer + 1
  /\ timers' = SelectSeq(timers, LAMBDA t : t # notifyT)
  /\ notifyT' = 0
  /\ UNCHANGED <<calcVars, faqOpen, callVars>>

\* notify(msg): setToast(msg); clearTimeout(notify._t); notify._t =
\* setTimeout(hide, 2200).  The render that follows a changed toast makes
\* a new notify function, whose _t is unset.
Notify(msg) ==
  /\ nextTimer < MaxTimers
  /\ toast' = msg
  /\ nextTimer' = nextTimer + 1
  /\ timers' = Append(SelectSeq(timers, LAMBDA t : t # notifyT), nextTimer + 1)
  /\ notifyT' = IF msg # toast THEN 0 ELSE nextTimer + 1
  /\ UNCHANGED <<calcVars, faqOpen, callVars>>

\* the oldest pending timer fires: setToast(null)
Timeout ==
  /\ timers # <<>>
  /\ toast' = NoToast
  /\ timers' = Tail(timers)
  /\ notifyT' = IF toast # NoToast THEN 0 ELSE notifyT
  /\ UNCHANGED <<calcVars, faqOpen, nextTimer, callVars>>

Next ==
  \/ \E key \in OptionKeys : SetFeedstock(key)
  \/ \E text \in KgTexts : SetKgPerDay(text)
  \/ \E text \in GasTexts : SetGasPrice(text)
  \/ \E text \in ElecTexts : SetElectricityPrice(text)
  \/ \E i \in 0..(FaqItems - 1) : ToggleFaq(i)
  \/ \E msg \in Messages : Notify(msg)
  \/ Timeout

Spec == Init /\ [][Next]_vars

\* a pending window.setTimeout callback is run by the event loop
LiveSpec == Spec /\ WF_vars(Timeout)

\* ------------------------------------------------------------------
\* estimate called directly on one argument
\* ------------------------------------------------------------------
EstInit ==
  /\ PageInit
  /\ arg \in Args
  /\ ret = Thrown
  /\ called = FALSE
  /\ shown = NotShown

Call ==
  /\ ~called
  /\ ret' = estimate(arg)
  /\ called' = TRUE
  /\ UNCHANGED <<calcVars, faqOpen, toastVars, arg, shown>>

\* the Payback tile and the Payback line of the copied summary, rendered
\* for the returned result
ShowPayback ==
  /\ called
  /\ ~ret.thrown
  /\ shown = NotShown
  /\ shown' = PaybackText(ret.payback_months)
  /\ UNCHANGED <<calcVars, faqOpen, toastVars, arg, ret, called>>

EstNext == Call \/ ShowPayback

EstSpec == EstInit /\ [][EstNext]_vars

\* ==================================================================
\* Claims
\* ==================================================================
\* the rational n/d (d > 0) rounded half-up to `digits` decimals
Rounded(n, d, digits) ==
  Num((2 * n * Pow10(digits) + d) \div (2 * d), Pow10(digits))

\* the catalog as the specification lists it: key, label, yield in 1/100 m3 per kg
CatalogKeys == <<cattle, poultry, food, mixed>>
CatalogYield == <<3, 6, 9, 5>>
CatalogLabels ==
  <<"Qoramol go'ngi", "Parranda go'ngi", "Oziq-ovqat chiqindisi", "Aralash organik">>

\* the call was made on an object whose mass and prices ToNumber accepts
Returned ==
  /\ called
  /\ arg.kind = "object"
  /\ ~Throws(arg.kgPerDay)
  /\ ~Throws(arg.gasPriceUZS)
  /\ ~Throws(arg.electricityPriceUZS)

\* the prices estimate computes with
GasPriceOf(a) == ToNumber(WithDefault(a.gasPriceUZS, DefaultGasPriceUZS))
ElecPriceOf(a) == ToNumber(WithDefault(a.electricityPriceUZS, DefaultElectricityPriceUZS))

WorkedExample ==
  [kind |-> "object", feedstockKey |-> Str(cattle), kgPerDay |-> IntNum(600),
   gasPriceUZS |-> IntNum(1800), electricityPriceUZS |-> IntNum(450)]

WorkedExampleResult ==
  [thrown |-> FALSE, feedstock |-> "Qoramol go'ngi",
   biogas_m3 |-> IntNum(18), thermal_kwh |-> IntNum(108), electric_kwh |-> IntNum(36),
   monthly_saving |-> IntNum(1458000), capex |-> IntNum(21600000),
   payback_months |-> Num(148, 10), co2_kg_per_day |-> Num(342, 10)]

\* C1: estimate on {cattle, 600, 1800, 450} returns biogas 18.0, thermal
\* 108.0, electric 36.0, saving 1,458,000, capex 21,600,000, payback 14.8
\* and CO2 34.2; that input is the page's initial calculator state, whose
\* result is the same.
C1_WorkedExample ==
  /\ calc = WorkedExample
  /\ result = WorkedExampleResult
  /\ (called /\ arg = WorkedExample) => ret = WorkedExampleResult

C1_Witness == called /\ arg = WorkedExample /\ ret.payback_months = Num(148, 10)

\* C2: for each of the four catalog keys and every daily mass >= 0 the
\* returned biogas volume is mass * yield factor of that key rounded to 2
\* decimals, and the returned label is that key's label.
C2_BiogasIsMassTimesYield ==
  \A i \in 1..4 :
    (/\ Returned
     /\ arg.feedstockKey = Str(CatalogKeys[i])
     /\ IsNumber(arg.kgPerDay)
     /\ Le(IntNum(0), arg.kgPerDay))
    => /\ ~ret.thrown
       /\ ret.feedstock = CatalogLabels[i]
       /\ ret.biogas_m3 =
            IF arg.kgPerDay.k = "inf" THEN PosInf
            ELSE Rounded(arg.kgPerDay.n * CatalogYield[i], arg.kgPerDay.d * 100, 2)

\* half a kilogram of food waste: 0.045 m3, returned as 0.05
C2_Witness ==
  /\ called
  /\ arg.feedstockKey = Str(food)
  /\ arg.kgPerDay = Num(1, 2)
  /\ ret.biogas_m3 = Num(5, 100)
  /\ ret.feedstock = "Oziq-ovqat chiqindisi"

\* C3: for every daily mass <= 0, with any feedstock key and any finite
\* prices, biogas, thermal, electric, CO2 and monthly savings are 0 and
\* payback is null.
C3_NoMassNoOutput ==
  (/\ Returned
   /\ IsNumber(arg.kgPerDay)
   /\ Le(arg.kgPerDay, IntNum(0))
   /\ IsFinite(GasPriceOf(arg))
   /\ IsFinite(ElecPriceOf(arg)))
  => /\ ~ret.thrown
     /\ ret.biogas_m3 = IntNum(0)
     /\ ret.thermal_kwh = IntNum(0)
     /\ ret.electric_kwh = IntNum(0)
     /\ ret.co2_kg_per_day = IntNum(0)
     /\ ret.monthly_saving = IntNum(0)
     /\ ret.payback_months = Null

\* a negative mass with an unknown key and positive prices
C3_Witness ==
  /\ Returned
  /\ IsFinite(arg.kgPerDay)
  /\ arg.kgPerDay.n < 0
  /\ arg.feedstockKey = Undefined
  /\ IsFinite(GasPriceOf(arg)) /\ GasPriceOf(arg).n > 0
  /\ ret.payback_months = Null
  /\ ret.monthly_saving = IntNum(0)

\* C4 (as claimed): in every result, payback_months is null if and only if
\* the returned monthly_saving is <= 0.  Stated for finite masses and
\* prices.
C4_PaybackNullIffNoSaving ==
  (/\ Returned
   /\ IsFinite(ToNumber(arg.kgPerDay))
   /\ IsFinite(GasPriceOf(arg))
   /\ IsFinite(ElecPriceOf(arg)))
  => (ret.payback_months = Null <=> Le(ret.monthly_saving, IntNum(0)))

\* yield (1/100 m3 per kg) estimate uses for a key: the catalog's, or the
\* first entry's for a key that is not in it
YieldOf(key) ==
  IF \E i \in 1..4 : key = Str(CatalogKeys[i])
  THEN CatalogYield[CHOOSE i \in 1..4 : key = Str(CatalogKeys[i])]
  ELSE CatalogYield[1]

\* numerator of the clamped mass max(0, kg) of a finite kg
ClampedN(kg) == IF kg.n < 0 THEN 0 ELSE kg.n

C6_Cashflow ==
  /\ Len(chartData) = 12
  /\ \A i \in 1..12 : chartData[i].month = i
  /\ \A i \in 1..11 : chartData[i].month < chartData[i + 1].month
  /\ (IsFinite(result.capex) /\ IsFinite(result.monthly_saving)) =>
       chartData[12].cum =
         Rounded(12 * result.monthly_saving.n * result.capex.d
                   - result.capex.n * result.monthly_saving.d,
                 result.capex.d * result.monthly_saving.d, 0)

\* a negative gas price: savings below zero and a falling cashflow
C6_Witness ==
  /\ IsFinite(result.monthly_saving)
  /\ result.monthly_saving.n < 0
  /\ chartData[12].cum.n < chartData[1].cum.n
  /\ chartData[1].cum.n < -result.capex.n

\* C7: for a feedstockKey that is not in the catalog estimate does not
\* raise and returns what it returns for "cattle" (yield 0.03, the first
\* entry's label) with the same mass and prices.
C7_UnknownKeyIsCattle ==
  (Returned /\ \A i \in 1..4 : arg.feedstockKey # Str(CatalogKeys[i])) =>
    LET kg == ToNumber(arg.kgPerDay)
    IN  /\ ~ret.thrown
        /\ ret = estimate([arg EXCEPT !.feedstockKey = Str(cattle)])
        /\ ret.feedstock = CatalogLabels[1]
        /\ IsFinite(kg) => ret.biogas_m3 = Rounded(ClampedN(kg) * 3, kg.d * 100, 2)

C7_Witness ==
  /\ Returned
  /\ arg.feedstockKey = Str(<<"s", "t", "r", "a", "w">>)
  /\ arg.kgPerDay = IntNum(600)
  /\ ret.biogas_m3 = IntNum(18)
  /\ ret.feedstock = "Qoramol go'ngi"

\* C8 (as claimed): a non-numeric or negative daily mass is treated as
\* zero mass: biogas and every field proportional to it are 0, not NaN.
C8_BadMassIsZero ==
  (/\ Returned
   /\ \/ ~IsNumber(arg.kgPerDay)
      \/ arg.kgPerDay.k = "nan"
      \/ Lt(arg.kgPerDay, IntNum(0)))
  => /\ ret.biogas_m3 = IntNum(0)
     /\ ret.thermal_kwh = IntNum(0)
     /\ ret.electric_kwh = IntNum(0)
     /\ ret.co2_kg_per_day = IntNum(0)

\* C9 (as claimed): estimate never raises, whatever it is called with.
C9_NeverRaises == called => ~ret.thrown

C12_ResultFollowsCalc ==
  /\ result = estimate(calc)
  /\ chartData = ChartData(estimate(calc))

\* edits that leave capex at its floor and change the savings only
C12_Witness ==
  /\ calc.kgPerDay = IntNum(200)
  /\ calc.gasPriceUZS = IntNum(900)
  /\ calc.electricityPriceUZS = IntNum(0)
  /\ calc.feedstockKey = Str(cattle)
  /\ result.capex = IntNum(12000000)
  /\ result.monthly_saving = IntNum(162000)
  /\ chartData[1].cum = IntNum(-11838000)

\* the result shows a payback of at most 12 months
PaybackWithinChart ==
  /\ IsFinite(result.payback_months)
  /\ Le(result.payback_months, IntNum(CashflowMonths))

\* C13 (as claimed): whenever payback_months is present and <= 12, the
\* cashflow's cumulative value is negative at every month index below
\* payback_months and non-negative at every month index >= payback_months.
C13_PaybackIsBreakEven ==
  PaybackWithinChart =>
    \A k \in 1..CashflowMonths :
      IF Lt(IntNum(k), result.payback_months)
      THEN Lt(chartData[k].cum, IntNum(0))
      ELSE Le(IntNum(0), chartData[k].cum)

\* C13 (amended): whenever payback_months is present and <= 12, the
\* cumulative value is negative at every month index below payback_months
\* and non-negative at every month index above it; at a month index equal
\* to payback_months (a payback rounded to a whole number) it has either
\* sign.
C13_PaybackIsBreakEvenRounded ==
  PaybackWithinChart =>
    \A k \in 1..CashflowMonths :
      /\ Lt(IntNum(k), result.payback_months) => Lt(chartData[k].cum, IntNum(0))
      /\ Gt(IntNum(k), result.payback_months) => Le(IntNum(0), chartData[k].cum)

\* 600 kg of cattle manure at a gas price of 7990 and no electricity
\* price: capex / saving = 5.006.., returned as 5, and month 5 is still
\* 27,000 short
C13_Witness ==
  /\ result.payback_months = IntNum(5)
  /\ chartData[4].cum = IntNum(-4341600)
  /\ chartData[5].cum = IntNum(-27000)
  /\ chartData[6].cum = IntNum(4287600)

\* the unrounded volume the specification derives the other fields from:
\* max(0, mass) * yield of the key
VolumeOf(a) ==
  LET kg == ToNumber(a.kgPerDay)
      y == YieldOf(a.feedstockKey)
  IN  CASE IsFinite(kg) -> Num(ClampedN(kg) * y, kg.d * 100)
        [] kg.k = "inf" -> PosInf
        [] kg.k = "ninf" -> IntNum(0)
        [] OTHER -> NaN

\* a Number rounded half-up to `digits` decimals; NaN and the infinities
\* have no decimals to round
RoundedTo(v, digits) == IF IsFinite(v) THEN Rounded(v.n, v.d, digits) ELSE v

\* C14: for every input, monthly savings are (biogasVolume * gasPrice +
\* electricEnergy * electricityPrice) * 30 with electricEnergy =
\* biogasVolume * 2, computed from the unrounded volume and then rounded
\* to a whole currency unit.
C14_MonthlySaving ==
  Returned =>
    LET volume == VolumeOf(arg)
        electricEnergy == Mul(volume, IntNum(2))
        saving ==
          Mul(Add(Mul(volume, GasPriceOf(arg)), Mul(electricEnergy, ElecPriceOf(arg))),
              IntNum(30))
    IN  /\ ~ret.thrown
        /\ ret.monthly_saving = RoundedTo(saving, 0)

\* half a kilogram of cattle manure at the default prices: 0.015 m3 a
\* day saves 1215 a month (a volume rounded to 0.02 would give 1620)
C14_Witness ==
  /\ Returned
  /\ arg.feedstockKey = Str(cattle)
  /\ arg.kgPerDay = Num(1, 2)
  /\ arg.gasPriceUZS = Undefined
  /\ arg.electricityPriceUZS = IntNum(450)
  /\ ret.biogas_m3 = Num(2, 100)
  /\ ret.monthly_saving = IntNum(1215)

\* C15: for every input, thermal energy = biogasVolume * 6, electric
\* energy = biogasVolume * 2 and CO2 reduction = biogasVolume * 1.9, each
\* derived from the unrounded (clamped) volume and then rounded to 1
\* decimal.
C15_EnergyAndCo2 ==
  Returned =>
    LET volume == VolumeOf(arg)
    IN  /\ ~ret.thrown
        /\ ret.thermal_kwh = RoundedTo(Mul(volume, IntNum(6)), 1)
        /\ ret.electric_kwh = RoundedTo(Mul(volume, IntNum(2)), 1)
        /\ ret.co2_kg_per_day = RoundedTo(Mul(volume, Num(19, 10)), 1)

\* half a kilogram of mixed organics: 0.025 m3 gives 0.15 -> 0.2 kWh of
\* heat and 0.0475 -> 0 kg of CO2 (a volume rounded to 0.03 would give 0.1)
C15_Witness ==
  /\ Returned
  /\ arg.feedstockKey = Str(mixed)
  /\ arg.kgPerDay = Num(1, 2)
  /\ ret.biogas_m3 = Num(3, 100)
  /\ ret.thermal_kwh = Num(2, 10)
  /\ ret.electric_kwh = Num(1, 10)
  /\ ret.co2_kg_per_day = IntNum(0)

\* C16: the cashflow is a running total that starts at -capex and adds
\* monthly_saving once per month: point k (1..12) is -capex + k *
\* monthly_saving, consecutive points differ by exactly monthly_saving,
\* and the series is non-increasing whenever monthly_saving <= 0.
C16_RunningTotal ==
  (IsFinite(result.capex) /\ IsFinite(result.monthly_saving)) =>
    LET capex == result.capex.n
        m == result.monthly_saving.n
    IN  /\ result.capex.d = 1 /\ result.monthly_saving.d = 1
        /\ \A k \in 1..12 : chartData[k].cum = IntNum(k * m - capex)
        /\ \A k \in 1..11 : chartData[k + 1].cum.n - chartData[k].cum.n = m
        /\ m <= 0 => \A k \in 1..11 : chartData[k + 1].cum.n <= chartData[k].cum.n

\* no mass: savings 0 and a flat series at -12,000,000
C16_Witness ==
  /\ calc.kgPerDay = IntNum(0)
  /\ result.monthly_saving = IntNum(0)
  /\ result.capex = IntNum(12000000)
  /\ chartData[1].cum = IntNum(-12000000)
  /\ chartData[12].cum = IntNum(-12000000)

\* v is a finite Number and a multiple of 1 / per
MultipleOf(v, per) == IsFinite(v) /\ per % v.d = 0

\* C17 (as claimed): every numeric field of the returned result has its
\* fixed precision: biogas volume a multiple of 0.01, thermal energy,
\* electric energy, CO2 reduction and (when present) payback months
\* multiples of 0.1, monthly savings and capex whole numbers; every
\* cashflow cumulative value is a whole number.
C17_FixedPrecision ==
  /\ Returned =>
       /\ MultipleOf(ret.biogas_m3, 100)
       /\ MultipleOf(ret.thermal_kwh, 10)
       /\ MultipleOf(ret.electric_kwh, 10)
       /\ MultipleOf(ret.co2_kg_per_day, 10)
       /\ ret.payback_months # Null => MultipleOf(ret.payback_months, 10)
       /\ MultipleOf(ret.monthly_saving, 1)
       /\ MultipleOf(ret.capex, 1)
  /\ \A k \in 1..Len(chartData) : MultipleOf(chartData[k].cum, 1)

\* C18 (as claimed): the Payback tile and the copied summary show the
\* placeholder if and only if payback_months is null; whenever
\* payback_months is a number (including one that rounds to 0) they show
\* that number followed by " oy".  Stated for finite masses and prices.
C18_PlaceholderIffNull ==
  (/\ shown # NotShown
   /\ IsFinite(ToNumber(arg.kgPerDay))
   /\ IsFinite(GasPriceOf(arg))
   /\ IsFinite(ElecPriceOf(arg)))
  => /\ shown = Placeholder <=> ret.payback_months = Null
     /\ IsNumber(ret.payback_months) =>
          shown = NumberToString(ret.payback_months) \o <<" ", "o", "y">>

\* C19 (as claimed): when notify is called while an earlier toast is
\* showing, the earlier hide-timer is cancelled: at most one hide-timer is
\* pending, and a toast is hidden only by the timer the most recent notify
\* call started.
C19_HiddenByLatestTimer ==
  /\ [](Len(timers) <= 1)
  /\ [][(toast # NoToast /\ toast' = NoToast) => Head(timers) = nextTimer]_vars

\* C20: after a notify call the toast returns to null unless a further
\* notify call comes first, and the toast is non-null only while a
\* hide-timer started by notify is pending.
C20_ToastEventuallyHidden ==
  /\ [](toast # NoToast => timers # <<>>)
  /\ \A n \in 1..MaxTimers :
       (toast # NoToast /\ nextTimer = n) ~> (toast = NoToast \/ nextTimer # n)

\* two notify calls, both timers fired, the toast hidden
C20_Witness ==
  /\ nextTimer = 2
  /\ timers = <<>>
  /\ toast = NoToast

\* what one step may change: a step that changes one field of calc (the
\* onChange of that field) keeps the other three, and a step that touches
\* the toast, its timers or the FAQ keeps calc, result and chartData
FrameStep ==
  /\ calc'.feedstockKey # calc.feedstockKey =>
       /\ calc'.kgPerDay = calc.kgPerDay
       /\ calc'.gasPriceUZS = calc.gasPriceUZS
       /\ calc'.electricityPriceUZS = calc.electricityPriceUZS
  /\ calc'.kgPerDay # calc.kgPerDay =>
       /\ calc'.feedstockKey = calc.feedstockKey
       /\ calc'.gasPriceUZS = calc.gasPriceUZS
       /\ calc'.electricityPriceUZS = calc.electricityPriceUZS
  /\ calc'.gasPriceUZS # calc.gasPriceUZS =>
       /\ calc'.feedstockKey = calc.feedstockKey
       /\ calc'.kgPerDay = calc.kgPerDay
       /\ calc'.electricityPriceUZS = calc.electricityPriceUZS
  /\ calc'.electricityPriceUZS # calc.electricityPriceUZS =>
       /\ calc'.feedstockKey = calc.feedstockKey
       /\ calc'.kgPerDay = calc.kgPerDay
       /\ calc'.gasPriceUZS = calc.gasPriceUZS
  /\ (toast' # toast \/ timers' # timers \/ nextTimer' # nextTimer
        \/ faqOpen' # faqOpen) =>
       /\ calc' = calc
       /\ result' = result
       /\ chartData' = chartData

\* C21: editing one calculator field changes that field of calc only, and
\* notify (the refresh, copy, scroll and contact buttons), the toast
\* timeout and the FAQ toggle leave calc, the result and the cashflow
\* unchanged.
C21_Frame == [][FrameStep]_vars

\* the feedstock was changed, a toast is showing and an FAQ item was
\* opened; mass and prices are the initial ones
C21_Witness ==
  /\ calc.feedstockKey = Str(food)
  /\ calc.kgPerDay = IntNum(600)
  /\ calc.gasPriceUZS = IntNum(1800)
  /\ calc.electricityPriceUZS = IntNum(450)
  /\ toast # NoToast
  /\ faqOpen = 2

\* what a click on FAQ item i does to the open items
FaqStep ==
  \A i \in 0..(FaqItems - 1) :
    ToggleFaq(i) =>
      IF i \in OpenItems(faqOpen)
      THEN OpenItems(faqOpen') = {}
      ELSE OpenItems(faqOpen') = {i}

\* C22: at most one FAQ item is open in every reachable state (faqOpen is
\* -1 or an index 0..3, initially 0); clicking the open item closes it
\* leaving none open, and clicking a closed item i makes i the only open
\* item.
C22_FaqAccordion ==
  /\ faqOpen = 0
  /\ [](faqOpen \in {-1, 0, 1, 2, 3} /\ Cardinality(OpenItems(faqOpen)) <= 1)
  /\ [][FaqStep]_vars

\* the open item was clicked: none is open
C22_Witness == faqOpen = -1 /\ OpenItems(faqOpen) = {}

\* C23 (as claimed): once the biogas volume is at least 10 m3/day and the
\* prices are positive, payback_months does not depend on mass or
\* feedstock: it is 1,200,000 / ((gasPrice + 2 * electricityPrice) * 30)
\* rounded to 1 decimal.
C23_PaybackFromPricesAlone ==
  (/\ Returned
   /\ Le(IntNum(10), VolumeOf(arg))
   /\ Gt(GasPriceOf(arg), IntNum(0))
   /\ Gt(ElecPriceOf(arg), IntNum(0)))
  => ret.payback_months =
       RoundedTo(Div(IntNum(1200000),
                     Mul(Add(GasPriceOf(arg), Mul(IntNum(2), ElecPriceOf(arg))),
                         IntNum(30))), 1)

\* the price the claim expects estimate to compute with: the documented
\* default for an omitted price, the supplied value otherwise
PriceOrDefault(v, dflt) == IF v = Undefined THEN IntNum(dflt) ELSE ToNumber(v)

\* C24: when gasPriceUZS or electricityPriceUZS is omitted (undefined),
\* the result equals the result with gasPriceUZS = 1800 and
\* electricityPriceUZS = 450 respectively; an explicitly supplied value
\* (including 0) is never replaced by the default.
C24_PriceDefaults ==
  Returned =>
    LET gas == PriceOrDefault(arg.gasPriceUZS, 1800)
        elec == PriceOrDefault(arg.electricityPriceUZS, 450)
        explicit ==
          [arg EXCEPT !.gasPriceUZS = IF @ = Undefined THEN IntNum(1800) ELSE @,
                      !.electricityPriceUZS = IF @ = Undefined THEN IntNum(450) ELSE @]
        volume == VolumeOf(arg)
    IN  /\ ret = estimate(explicit)
        /\ ret.monthly_saving =
             RoundedTo(Mul(Add(Mul(volume, gas), Mul(Mul(volume, IntNum(2)), elec)),
                           IntNum(30)), 0)

\* a gas price of 0 with the electricity price omitted: 600 kg of cattle
\* manure save 18 * (0 + 2 * 450) * 30 = 486,000
C24_Witness ==
  /\ Returned
  /\ arg.feedstockKey = Str(cattle)
  /\ arg.kgPerDay = IntNum(600)
  /\ arg.gasPriceUZS = IntNum(0)
  /\ arg.electricityPriceUZS = Undefined
  /\ ret.monthly_saving = IntNum(486000)

====
